---- MODULE Spec2Model ----
(***************************************************************************)
(* A model of my-fancy-zsh-git-prompt (src/src/main.rs): one run of the    *)
(* process, from current_dir() to the line written on standard output.     *)
(* The environment (the file system, the repository library) answers each  *)
(* query the program makes; every answer the library's types allow is      *)
(* drawn.                                                                  *)
(***************************************************************************)
EXTENDS Naturals, Sequences, FiniteSets

VARIABLES
    pc,            \* the statement of main/print_details/summarize to run next
    cwd,           \* environment: what current_dir() answers (None: an error)
    tree,          \* environment: each file's blob in HEAD, index, working tree
    dir_path,      \* DirectoryContext.path
    repository,    \* DirectoryContext.repository: None or Some(handle)
    repo_state,    \* what repository.state() answered, "unread" before
    head,          \* what repository.head() answered
    diff_res,      \* diff_index_to_workdir: "unread", "err" or "ok"
    status_res,    \* statuses(None): "unread", "err" or "ok"
    label,         \* the ZshOutput print_details is about to print
    calls,         \* the library and file-system queries made so far
    stdout,        \* the text written to standard output, one entry per write
    stderr,        \* the text written to standard error
    is_dir_res,    \* what Path::is_dir answered: "unread", "yes" or "no"
    exit_code      \* whether the process has exited, and its exit code

vars == <<pc, cwd, tree, dir_path, repository, repo_state, head, diff_res,
          status_res, label, calls, stdout, stderr, is_dir_res, exit_code>>

(***************************************************************************)
(* Bounds and value sets.                                                  *)
(***************************************************************************)
MaxDepth == 3

\* A name whose bytes are not valid UTF-8: OsStr::to_str answers None for it.
NonUtf8 == {"<FF>"}
OsNames == {"repo", "sub", "dir"} \union NonUtf8
Paths == UNION {[1..n -> OsNames] : n \in 0..MaxDepth}
\* A working directory outside the current directory's ancestors
\* (core.worktree points elsewhere).
WorktreeElsewhere == <<"srv", "tree">>

Files == {"a.txt"}
\* A file's content in one of the three trees; "absent": not in that tree.
Absent == "absent"
Blobs == {Absent, "old", "new"}
Trees == [Files -> [head : Blobs, index : Blobs, workdir : Blobs]]

BranchNames == {"main", "dev"}
Oids == {"0123456789abcdef0123456789abcdef01234567"}

RepositoryStates ==
    {"Clean", "Merge", "Revert", "RevertSequence", "CherryPick",
     "CherryPickSequence", "Bisect", "Rebase", "RebaseInteractive",
     "RebaseMerge", "ApplyMailbox", "ApplyMailboxOrRebase"}

(***************************************************************************)
(* Option<T>, with one shape for both variants.                            *)
(***************************************************************************)
NoneStr == [some |-> FALSE, val |-> ""]
SomeStr(s) == [some |-> TRUE, val |-> s]
NonePath == [some |-> FALSE, val |-> <<>>]
SomePath(p) == [some |-> TRUE, val |-> p]

(***************************************************************************)
(* ZshOutput                                                               *)
(***************************************************************************)
ZshOutput_new(text) == [text |-> text, is_bold |-> FALSE, color |-> NoneStr]

set_color(o, color) == [o EXCEPT !.color = SomeStr(color)]

make_bold(o) == [o EXCEPT !.is_bold = TRUE]

output(o) ==
    LET r1 == IF o.is_bold THEN "%B" ELSE ""
        r2 == IF o.color.some THEN r1 \o "%F{" \o o.color.val \o "%}" ELSE r1
        r3 == r2 \o o.text
        r4 == IF o.color.some THEN r3 \o "%f" ELSE r3
    IN  IF o.is_bold THEN r4 \o "%b" ELSE r4

NoLabel == [some |-> FALSE, val |-> ZshOutput_new("")]
SomeLabel(o) == [some |-> TRUE, val |-> o]

(***************************************************************************)
(* Paths                                                                   *)
(***************************************************************************)
\* OsStr::to_str
to_str(name) == IF name \in NonUtf8 THEN NoneStr ELSE SomeStr(name)

\* Path::file_name: the last component, None for the root
file_name(path) ==
    IF path = <<>> THEN NoneStr ELSE SomeStr(path[Len(path)])

directory_short_name(path, is_dir) ==
    IF is_dir
    THEN IF file_name(path).some THEN to_str(file_name(path).val) ELSE NoneStr
    ELSE NoneStr

\* Path::strip_prefix: Err (None) unless base is a prefix of path
strip_prefix(path, base) ==
    IF Len(base) <= Len(path) /\ SubSeq(path, 1, Len(base)) = base
    THEN SomePath(SubSeq(path, Len(base) + 1, Len(path)))
    ELSE NonePath

RECURSIVE JoinComponents(_)
JoinComponents(path) ==
    IF path = <<>> THEN ""
    ELSE IF Len(path) = 1 THEN path[1]
    ELSE path[1] \o "/" \o JoinComponents(Tail(path))

\* Path::to_str of a relative path: None when some component is not UTF-8
path_to_str(path) ==
    IF \E i \in 1..Len(path) : path[i] \in NonUtf8
    THEN NoneStr
    ELSE SomeStr(JoinComponents(path))

format_subdirectory_path(repository_path, current_working_directory, is_dir) ==
    IF repository_path.some
    THEN LET short_name == directory_short_name(repository_path.val, is_dir)
             diff == strip_prefix(current_working_directory, repository_path.val)
             result == short_name.val \o "/"
         IN  IF short_name.some
             THEN IF diff.some /\ path_to_str(diff.val).some
                  THEN SomeStr(result \o path_to_str(diff.val).val)
                  ELSE SomeStr(result)
             ELSE NoneStr
    ELSE NoneStr

\* Mutant: the two paths are compared as text, and the working directory the
\* library answers ends with a separator the current directory lacks.
paths_match_bug(repository_path, current_working_directory) ==
    IF repository_path.some
    THEN Append(repository_path.val, "") = current_working_directory
    ELSE FALSE

paths_match(repository_path, current_working_directory) ==
    IF repository_path.some
    THEN repository_path.val = current_working_directory
    ELSE FALSE

NoRepository == [some |-> FALSE, workdir |-> NonePath]
SomeRepository(wd) == [some |-> TRUE, workdir |-> wd]

path_summary(path, repo, is_dir) ==
    IF repo.some
    THEN IF paths_match(repo.workdir, path)
         THEN directory_short_name(path, is_dir)
         ELSE format_subdirectory_path(repo.workdir, path, is_dir)
    ELSE directory_short_name(path, is_dir)

\* impl Display for DirectoryContext
DirectoryContext_fmt(path, repo, is_dir) ==
    IF path_summary(path, repo, is_dir).some
    THEN path_summary(path, repo, is_dir).val
    ELSE ""

(***************************************************************************)
(* The repository library's answers.                                       *)
(***************************************************************************)
\* Repository::discover walks up from the path: the repository it finds is
\* rooted at the path or an ancestor, is bare (no working directory), or has
\* its working directory elsewhere.
DiscoverResults(path) ==
    {NoRepository}
        \union {SomeRepository(SomePath(SubSeq(path, 1, n))) : n \in 0..Len(path)}
        \union {SomeRepository(NonePath), SomeRepository(SomePath(WorktreeElsewhere))}

\* repository.head(): an error, a named branch (whose short name may not be
\* valid UTF-8) or another reference (a detached HEAD, whose shorthand is
\* "HEAD"), with the target Reference::target answers.
NoHead == [ok |-> FALSE, is_branch |-> FALSE, shorthand |-> NoneStr, target |-> NoneStr]
HeadResults ==
    {NoHead}
        \union {[ok |-> TRUE, is_branch |-> TRUE, shorthand |-> s, target |-> t] :
                    s \in {NoneStr} \union {SomeStr(b) : b \in BranchNames},
                    t \in {SomeStr(o) : o \in Oids}}
        \union {[ok |-> TRUE, is_branch |-> FALSE, shorthand |-> SomeStr("HEAD"), target |-> t] :
                    t \in {NoneStr} \union {SomeStr(o) : o \in Oids}}

\* DiffStats::files_changed of the index-to-workdir diff
files_changed(t) ==
    Cardinality({f \in Files : t[f].index # Absent /\ t[f].workdir # t[f].index})

\* the status entries that are WT_NEW: in the working tree, not in the index
wt_new(t) == {f \in Files : t[f].index = Absent /\ t[f].workdir # Absent}

any_files_changed(diff_ok, t) ==
    IF diff_ok THEN files_changed(t) > 0 ELSE FALSE

\* Mutant: is_wt_modified in place of is_wt_new.
any_untracked_files_bug(statuses_ok, t) ==
    IF statuses_ok
    THEN \E f \in Files :
             /\ t[f].index # Absent /\ t[f].workdir # Absent
             /\ t[f].workdir # t[f].index
    ELSE FALSE

any_untracked_files(statuses_ok, t) ==
    IF statuses_ok THEN \E f \in wt_new(t) : TRUE ELSE FALSE

(***************************************************************************)
(* summarize's labels                                                      *)
(***************************************************************************)
\* Mutant: the RebaseMerge arm copied from the Merge arm.
state_text_bug(s) ==
    CASE s = "Merge" -> "(merging)"
      [] s = "Revert" -> "(reverting)"
      [] s = "RevertSequence" -> "(reverting)"
      [] s = "CherryPick" -> "(cherry-picking)"
      [] s = "CherryPickSequence" -> "(cherry-picking)"
      [] s = "Bisect" -> "(bisecting)"
      [] s = "Rebase" -> "(rebasing)"
      [] s = "RebaseInteractive" -> "(rebasing)"
      [] s = "RebaseMerge" -> "(merging)"
      [] s = "ApplyMailbox" -> "(mailbox-applying)"
      [] s = "ApplyMailboxOrRebase" -> "(mailbox-applying)"

state_text(s) ==
    CASE s = "Merge" -> "(merging)"
      [] s = "Revert" -> "(reverting)"
      [] s = "RevertSequence" -> "(reverting)"
      [] s = "CherryPick" -> "(cherry-picking)"
      [] s = "CherryPickSequence" -> "(cherry-picking)"
      [] s = "Bisect" -> "(bisecting)"
      [] s = "Rebase" -> "(rebasing)"
      [] s = "RebaseInteractive" -> "(rebasing)"
      [] s = "RebaseMerge" -> "(rebasing)"
      [] s = "ApplyMailbox" -> "(mailbox-applying)"
      [] s = "ApplyMailboxOrRebase" -> "(mailbox-applying)"

state_label(s) == set_color(ZshOutput_new(state_text(s)), "magenta")

\* Mutant: the Err arm colored like the state arms.
no_commits_label_bug == set_color(ZshOutput_new("(no commits yet)"), "magenta")

no_commits_label == set_color(ZshOutput_new("(no commits yet)"), "yellow")

\* Mutant: the shorthand used whether or not the head is a branch.
branch_name_bug(h) ==
    IF h.shorthand.some THEN h.shorthand.val ELSE "(unknown branch)"

\* lines 173-180, for a head whose target, if needed, is there
branch_name(h) ==
    IF h.is_branch
    THEN IF h.shorthand.some THEN h.shorthand.val ELSE "(unknown branch)"
    ELSE h.target.val

dirty_label(name) == set_color(ZshOutput_new(name \o "*"), "red")

clean_label(name) == set_color(ZshOutput_new(name), "blue")

\* Mutant: make_bold forgotten.
not_repo_label_bug == set_color(ZshOutput_new("(not repo)"), "blue")

not_repo_label == make_bold(set_color(ZshOutput_new("(not repo)"), "blue"))

Running == [exited |-> FALSE, code |-> 0]
Exited(code) == [exited |-> TRUE, code |-> code]

PanicMessage == "called Option::unwrap() on a None value"

(***************************************************************************)
(* The run.                                                                *)
(***************************************************************************)
Init ==
    /\ pc = "main"
    /\ cwd \in {NonePath} \union {SomePath(p) : p \in Paths}
    /\ tree \in Trees
    /\ dir_path = <<>>
    /\ repository = NoRepository
    /\ repo_state = "unread"
    /\ head = NoHead
    /\ diff_res = "unread"
    /\ status_res = "unread"
    /\ label = NoLabel
    /\ calls = {}
    /\ stdout = <<>>
    /\ stderr = <<>>
    /\ is_dir_res = "unread"
    /\ exit_code = Running

\* main, lines 272-281
Main_current_dir ==
    /\ pc = "main"
    /\ calls' = calls \union {"current_dir"}
    /\ IF cwd.some
       THEN /\ dir_path' = cwd.val
            /\ pc' = "discover"
            /\ exit_code' = exit_code
       ELSE /\ dir_path' = dir_path
            /\ pc' = "exit"
            /\ exit_code' = Exited(0)
    /\ UNCHANGED <<cwd, tree, repository, repo_state, head, diff_res,
                   status_res, label, stdout, stderr, is_dir_res>>

\* main, lines 283-293
Main_discover ==
    /\ pc = "discover"
    /\ \E r \in DiscoverResults(dir_path) : repository' = r
    /\ calls' = calls \union {"discover"}
    /\ pc' = "print_details"
    /\ UNCHANGED <<cwd, tree, dir_path, repo_state, head, diff_res,
                   status_res, label, stdout, stderr, is_dir_res, exit_code>>

\* print_details, lines 257-259 and 262-265: the match and the None arm's label
PrintDetails ==
    /\ pc = "print_details"
    /\ IF repository.some
       THEN /\ pc' = "summarize"
            /\ label' = label
       ELSE /\ pc' = "println"
            /\ label' = SomeLabel(not_repo_label)
    /\ UNCHANGED <<cwd, tree, dir_path, repository, repo_state, head, diff_res,
                   status_res, calls, stdout, stderr, is_dir_res, exit_code>>

\* summarize, line 170 and the arms of lines 199-253
Summarize_state ==
    /\ pc = "summarize"
    /\ \E s \in RepositoryStates :
         /\ repo_state' = s
         /\ IF s = "Clean"
            THEN /\ pc' = "head"
                 /\ label' = label
            ELSE /\ pc' = "println"
                 /\ label' = SomeLabel(state_label(s))
    /\ calls' = calls \union {"state"}
    /\ UNCHANGED <<cwd, tree, dir_path, repository, head, diff_res,
                   status_res, stdout, stderr, is_dir_res, exit_code>>

\* summarize, lines 171-180 and 193-197
Summarize_head ==
    /\ pc = "head"
    /\ \E h \in HeadResults :
         /\ head' = h
         /\ IF ~h.ok
            THEN /\ pc' = "println"
                 /\ label' = SomeLabel(no_commits_label)
                 /\ calls' = calls \union {"head"}
                 /\ UNCHANGED <<stderr, exit_code>>
            ELSE IF h.is_branch
            THEN /\ pc' = "any_files_changed"
                 /\ calls' = calls \union {"head", "shorthand"}
                 /\ UNCHANGED <<label, stderr, exit_code>>
            ELSE IF h.target.some
            THEN /\ pc' = "any_files_changed"
                 /\ calls' = calls \union {"head", "target"}
                 /\ UNCHANGED <<label, stderr, exit_code>>
            ELSE \* head_reference.target().unwrap() panics
                 /\ pc' = "exit"
                 /\ calls' = calls \union {"head", "target"}
                 /\ stderr' = Append(stderr, PanicMessage)
                 /\ exit_code' = Exited(101)
                 /\ label' = label
    /\ UNCHANGED <<cwd, tree, dir_path, repository, repo_state, diff_res,
                   status_res, stdout, is_dir_res>>

\* A bare repository has no working directory to diff or scan.
QueryOutcomes == IF repository.workdir.some THEN {"ok", "err"} ELSE {"err"}

\* summarize, lines 182-186, with any_files_changed, lines 155-161
Summarize_any_files_changed ==
    /\ pc = "any_files_changed"
    /\ \E r \in QueryOutcomes :
         /\ diff_res' = r
         /\ IF any_files_changed(r = "ok", tree)
            THEN /\ pc' = "println"
                 /\ label' = SomeLabel(dirty_label(branch_name(head)))
            ELSE /\ pc' = "any_untracked_files"
                 /\ label' = label
    /\ calls' = calls \union {"diff_index_to_workdir"}
    /\ UNCHANGED <<cwd, tree, dir_path, repository, repo_state, head,
                   status_res, stdout, stderr, is_dir_res, exit_code>>

\* summarize, lines 182-191, with any_untracked_files, lines 163-167
Summarize_any_untracked_files ==
    /\ pc = "any_untracked_files"
    /\ \E r \in QueryOutcomes :
         /\ status_res' = r
         /\ IF any_untracked_files(r = "ok", tree)
            THEN label' = SomeLabel(dirty_label(branch_name(head)))
            ELSE label' = SomeLabel(clean_label(branch_name(head)))
    /\ pc' = "println"
    /\ calls' = calls \union {"statuses"}
    /\ UNCHANGED <<cwd, tree, dir_path, repository, repo_state, head,
                   diff_res, stdout, stderr, is_dir_res, exit_code>>

\* the line print_details writes
Line(path, repo, is_dir, o) ==
    DirectoryContext_fmt(path, repo, is_dir) \o " " \o output(o) \o " " \o "\n"

\* print_details, lines 260 and 266: println!, which formats the directory
\* (path_summary asks the file system whether the path is a directory);
\* then main returns
Println ==
    /\ pc = "println"
    /\ \E is_dir \in BOOLEAN :
         /\ is_dir_res' = IF is_dir THEN "yes" ELSE "no"
         /\ stdout' = Append(stdout, Line(dir_path, repository, is_dir, label.val))
    /\ calls' = calls \union {"is_dir"}
    /\ pc' = "exit"
    /\ exit_code' = Exited(0)
    /\ UNCHANGED <<cwd, tree, dir_path, repository, repo_state, head,
                   diff_res, status_res, label, stderr>>

Next ==
    \/ Main_current_dir
    \/ Main_discover
    \/ PrintDetails
    \/ Summarize_state
    \/ Summarize_head
    \/ Summarize_any_files_changed
    \/ Summarize_any_untracked_files
    \/ Println

Spec == Init /\ [][Next]_vars

(***************************************************************************)
(* The properties.                                                         *)
(***************************************************************************)
Done == pc = "exit"
IsDir == is_dir_res = "yes"
Summarized == label.some /\ repository.some
Colored(text, color) ==
    [text |-> text, is_bold |-> FALSE, color |-> [some |-> TRUE, val |-> color]]
\* the directory label of the line written: the line without its status part
PrintedWithDirectoryLabel(d) ==
    stdout = <<d \o " " \o output(label.val) \o " " \o "\n">>

\* C1: when the current directory can be determined the process writes
\* exactly one line, "<directory-label> <rendered-status-markup> " and a
\* newline, repository or not; when it cannot, it writes nothing.
C1_OneLineOrNothing ==
    /\ Len(stdout) <= 1
    /\ Done =>
         IF cwd.some
         THEN /\ label.some
              /\ stdout = <<Line(dir_path, repository, IsDir, label.val)>>
         ELSE stdout = <<>>

\* C2: the process always exits with code 0 and writes no diagnostic,
\* whatever the fallible steps answer.
C2_AlwaysExitsZero ==
    /\ stderr = <<>>
    /\ exit_code.exited => exit_code.code = 0

\* C3: a repository whose state is not Clean gets the fixed label of its
\* state, magenta and not bold, and neither the head, the diff nor the
\* status entries are inspected.
C3_Text(s) ==
    IF s = "Merge" THEN "(merging)"
    ELSE IF s \in {"Rebase", "RebaseInteractive", "RebaseMerge"} THEN "(rebasing)"
    ELSE IF s \in {"CherryPick", "CherryPickSequence"} THEN "(cherry-picking)"
    ELSE IF s \in {"Revert", "RevertSequence"} THEN "(reverting)"
    ELSE IF s = "Bisect" THEN "(bisecting)"
    ELSE IF s \in {"ApplyMailbox", "ApplyMailboxOrRebase"} THEN "(mailbox-applying)"
    ELSE "?"
C3_OperationStateLabel ==
    repo_state \notin {"unread", "Clean"} =>
        /\ label = SomeLabel(Colored(C3_Text(repo_state), "magenta"))
        /\ calls \cap {"head", "shorthand", "target",
                       "diff_index_to_workdir", "statuses"} = {}
        /\ diff_res = "unread" /\ status_res = "unread"
        /\ Done => PrintedWithDirectoryLabel(DirectoryContext_fmt(dir_path, repository, IsDir))
C3_Witness ==
    /\ Done
    /\ repo_state = "RebaseMerge"
    /\ \E f \in Files : tree[f].index = "old" /\ tree[f].workdir = "new"
    /\ label.val.text = "(rebasing)"
    /\ Len(stdout) = 1

\* C4: in the Clean state with a resolved head the label is dirty exactly
\* when the index-to-workdir diff reports a changed file or a status entry is
\* a new untracked file, a failed computation counting as no change; dirty is
\* the branch label and "*" in red, not dirty the branch label in blue,
\* neither bold.
C4_DiffReportsChange ==
    diff_res = "ok" /\ \E f \in Files :
        tree[f].index # Absent /\ tree[f].workdir # tree[f].index
C4_StatusReportsUntracked ==
    status_res = "ok" /\ \E f \in Files :
        tree[f].index = Absent /\ tree[f].workdir # Absent
C4_DirtyIffChangedOrUntracked ==
    (Summarized /\ repo_state = "Clean" /\ head.ok) =>
        label.val = IF C4_DiffReportsChange \/ C4_StatusReportsUntracked
                    THEN Colored(branch_name(head) \o "*", "red")
                    ELSE Colored(branch_name(head), "blue")
C4_Witness ==
    /\ Done
    /\ repo_state = "Clean" /\ head.ok
    /\ diff_res = "ok" /\ ~C4_DiffReportsChange
    /\ C4_StatusReportsUntracked
    /\ label.val = Colored("main*", "red")

\* C5: in the Clean state with head at the named branch b, when the working
\* tree holds uncommitted modifications relative to the last commit the label
\* is b and "*" in red, and the blue unstarred label is shown only when there
\* are neither uncommitted modifications nor untracked files. (Stated for the
\* runs in which no diff or status computation failed.)
C5_Uncommitted == \E f \in Files : tree[f].workdir # tree[f].head
C5_Untracked ==
    \E f \in Files : tree[f].index = Absent /\ tree[f].workdir # Absent
C5_UncommittedIsDirty ==
    (/\ Summarized /\ repo_state = "Clean"
     /\ head.ok /\ head.is_branch /\ head.shorthand.some
     /\ diff_res # "err" /\ status_res # "err") =>
        /\ C5_Uncommitted => label.val = Colored(head.shorthand.val \o "*", "red")
        /\ label.val = Colored(head.shorthand.val, "blue") =>
               ~C5_Uncommitted /\ ~C5_Untracked

\* C6: the rendered markup of a label is "%B" if bold, "%F{c}" if colored
\* c, the text, "%f" if colored, "%b" if bold, in this order.
C6_Markup(o) ==
    (IF o.is_bold THEN "%B" ELSE "")
        \o (IF o.color.some THEN "%F{" \o o.color.val \o "}" ELSE "")
        \o o.text
        \o (IF o.color.some THEN "%f" ELSE "")
        \o (IF o.is_bold THEN "%b" ELSE "")
C6_RenderedMarkup ==
    /\ label.some => output(label.val) = C6_Markup(label.val)
    /\ (Done /\ label.some) =>
          stdout = <<DirectoryContext_fmt(dir_path, repository, IsDir)
                         \o " " \o C6_Markup(label.val) \o " " \o "\n">>

\* C7 as stated: the directory label is the short name of the working
\* directory when that is the repository's top-level directory,
\* "<repo-short-name>/<relative-path>" in a strict subdirectory of it, and
\* without a repository the short name of the current directory, or nothing
\* if that name cannot be decoded or the path is no existing directory.
C7_LastSegment(path) == IF path = <<>> THEN "" ELSE path[Len(path)]
C7_Decodable(path) == path = <<>> \/ path[Len(path)] \notin NonUtf8
C7_StrictlyBelow(path, root) ==
    Len(root) < Len(path) /\ SubSeq(path, 1, Len(root)) = root
C7_Relative(path, root) == SubSeq(path, Len(root) + 1, Len(path))
C7_DirectoryLabel_AsStated ==
    (Done /\ Len(stdout) = 1) =>
        LET root == repository.workdir.val IN
        IF repository.some /\ repository.workdir.some /\ root = dir_path
        THEN PrintedWithDirectoryLabel(C7_LastSegment(dir_path))
        ELSE IF repository.some /\ repository.workdir.some
                 /\ C7_StrictlyBelow(dir_path, root)
        THEN PrintedWithDirectoryLabel(
                 C7_LastSegment(root) \o "/"
                     \o JoinComponents(C7_Relative(dir_path, root)))
        ELSE IF ~repository.some
        THEN PrintedWithDirectoryLabel(
                 IF C7_Decodable(dir_path) /\ IsDir
                 THEN C7_LastSegment(dir_path) ELSE "")
        ELSE TRUE

\* C7 as amended: in all three cases the label is nothing when the short
\* name it starts with (of the repository's top-level directory, or of the
\* current directory) cannot be decoded as text, does not exist (the root
\* of the file system) or the path is no existing directory; and in a strict
\* subdirectory the relative path is left out, leaving
\* "<repo-short-name>/", when it cannot be decoded as text.
C7_ShortNameOrNothing(path) ==
    IF C7_Decodable(path) /\ IsDir THEN C7_LastSegment(path) ELSE ""
C7_AllDecodable(path) == \A i \in 1..Len(path) : path[i] \notin NonUtf8
C7_DirectoryLabel ==
    (Done /\ Len(stdout) = 1) =>
        LET root == repository.workdir.val
            rel == C7_Relative(dir_path, root)
        IN
        IF repository.some /\ repository.workdir.some /\ root = dir_path
        THEN PrintedWithDirectoryLabel(C7_ShortNameOrNothing(dir_path))
        ELSE IF repository.some /\ repository.workdir.some
                 /\ C7_StrictlyBelow(dir_path, root)
        THEN PrintedWithDirectoryLabel(
                 IF C7_ShortNameOrNothing(root) = "" THEN ""
                 ELSE IF C7_AllDecodable(rel)
                 THEN C7_LastSegment(root) \o "/" \o JoinComponents(rel)
                 ELSE C7_LastSegment(root) \o "/")
        ELSE IF ~repository.some
        THEN PrintedWithDirectoryLabel(C7_ShortNameOrNothing(dir_path))
        ELSE TRUE
C7_Witness ==
    /\ Done
    /\ repository.some
    /\ repository.workdir = SomePath(<<"repo">>)
    /\ dir_path = <<"repo", "sub", "dir">>
    /\ PrintedWithDirectoryLabel("repo/sub/dir")

\* C8 as stated: when no repository is discovered the run goes on and prints
\* its line with the "not a repository" label, bold and blue, and makes no
\* state, head, diff or status query.
C8_NoRepository(text) ==
    ("discover" \in calls /\ ~repository.some /\ pc # "print_details") =>
        /\ label = SomeLabel([text |-> text, is_bold |-> TRUE,
                              color |-> [some |-> TRUE, val |-> "blue"]])
        /\ calls \subseteq {"current_dir", "discover", "is_dir"}
        /\ repo_state = "unread" /\ diff_res = "unread" /\ status_res = "unread"
        /\ stderr = <<>>
        /\ pc \in {"println", "exit"}
        /\ Done => /\ exit_code = Exited(0)
                   /\ PrintedWithDirectoryLabel(
                          DirectoryContext_fmt(dir_path, repository, IsDir))
C8_NoRepositoryLabel_AsStated == C8_NoRepository("not a repository")

\* C8 as amended: the label's text is "(not repo)".
C8_NoRepositoryLabel == C8_NoRepository("(not repo)")
C8_Witness ==
    /\ Done
    /\ "discover" \in calls /\ ~repository.some
    /\ dir_path = <<"repo", "sub">>
    /\ Len(stdout) = 1
    /\ label.val.is_bold /\ label.val.color.val = "blue"
    /\ label.val.text = "(not repo)"

\* C9: in the Clean state with no commit yet (the head cannot be resolved)
\* the label is exactly "(no commits yet)", yellow, not bold, never starred:
\* the working tree is not inspected.
C9_NoCommitsYet ==
    (repo_state = "Clean" /\ "head" \in calls /\ ~head.ok) =>
        /\ label = SomeLabel(Colored("(no commits yet)", "yellow"))
        /\ diff_res = "unread" /\ status_res = "unread"
        /\ calls \cap {"diff_index_to_workdir", "statuses"} = {}
        /\ Done => PrintedWithDirectoryLabel(DirectoryContext_fmt(dir_path, repository, IsDir))
C9_Witness ==
    /\ Done
    /\ repo_state = "Clean" /\ "head" \in calls /\ ~head.ok
    /\ \A f \in Files : tree[f].head = Absent
    /\ \E f \in Files : tree[f].index = Absent /\ tree[f].workdir = "new"
    /\ label.val.text = "(no commits yet)"
    /\ Len(stdout) = 1

\* C10 as stated: in the Clean state with a resolved head the branch label is
\* the branch's short name when the head is a named branch and the full
\* target commit identifier when it is not, and the "*" suffix and the red or
\* blue color are applied to it alike in both cases.
C10_Dirty == C4_DiffReportsChange \/ C4_StatusReportsUntracked
C10_Labelled(name) ==
    label.val = IF C10_Dirty THEN Colored(name \o "*", "red")
                ELSE Colored(name, "blue")
C10_BranchLabel_AsStated ==
    (Summarized /\ repo_state = "Clean" /\ head.ok) =>
        IF head.is_branch
        THEN C10_Labelled(head.shorthand.val)
        ELSE C10_Labelled(head.target.val)

\* C10 as amended: a named branch whose short name is not valid UTF-8 is
\* labelled "(unknown branch)" instead of its short name.
C10_BranchLabel ==
    (Summarized /\ repo_state = "Clean" /\ head.ok) =>
        IF head.is_branch
        THEN IF head.shorthand.some
             THEN C10_Labelled(head.shorthand.val)
             ELSE C10_Labelled("(unknown branch)")
        ELSE /\ C10_Labelled(head.target.val)
             /\ head.target.val \in Oids
             /\ head.target.val \notin BranchNames
C10_Witness ==
    /\ Done
    /\ repo_state = "Clean" /\ head.ok /\ ~head.is_branch
    /\ C10_Dirty
    /\ label.val = Colored("0123456789abcdef0123456789abcdef01234567*", "red")
    /\ Len(stdout) = 1

====
